---- MODULE Spec2Model ----
(***************************************************************************)
(* Model of the query agent of src/main.py: the /query handler            *)
(* create_query, its orchestration loop over the OpenAI oracle, and the   *)
(* dynamic invoker call_kubernetes_api.                                   *)
(***************************************************************************)
EXTENDS Integers, Sequences, FiniteSets, TLC

VARIABLES
    pc,              \* position of the handler: validate, loop, tools, logs, done,
                     \* or blocked in an external call that does not return
    query,           \* <<q>> once `query` is bound (main.py:271), <<>> before
    messages,        \* the conversation (main.py:274)
    attempt,         \* number of iterations of the for loop started (main.py:282)
    oracle_reply,    \* <<reply>> the oracle sent to the latest call, raised or returned
    response,        \* <<reply>> once an oracle call returned (main.py:283)
    tool_calls,      \* tool calls of the current turn not yet executed (main.py:339)
    cluster_reply,   \* <<outcome>> of the cluster for the latest tool call (main.py:33)
    openai_response, \* <<decision>> once a parsed terminal reply arrived (main.py:300)
    fetch_logs,      \* log requests not yet fetched (main.py:314)
    logs,            \* texts fetched so far (main.py:313)
    responses,       \* responses produced for the request, in order
    seen,            \* the conversation passed to the latest oracle call (main.py:285)
    oracle_calls,    \* number of oracle calls issued (main.py:283)
    kube_calls,      \* number of call_kubernetes_api calls issued (main.py:342)
    log_calls,       \* number of read_namespaced_pod_log calls issued (main.py:316)
    varied,          \* number of oracle/cluster choices that departed from the plain one
    parked,          \* <<locals>> of a second invocation of the handler that is not
                     \* running, <<>> when there is one invocation only
    self             \* the invocation that is running: 1 or 2

vars == <<pc, query, messages, attempt, oracle_reply, response, tool_calls, cluster_reply,
          openai_response, fetch_logs, logs, responses, seen, oracle_calls,
          kube_calls, log_calls, varied, parked, self>>

-----------------------------------------------------------------------------
(* Bounds of the model and constants of the program.                       *)

\* at most this many choices of a run (of the oracle or of the cluster) depart
\* from the plain ones: a turn of one plain tool call that succeeds, a final answer
MaxVaried == 1
\* longest log-fetch plan the oracle returns
MaxLogs == 2
max_attempts == 10

SYSTEM_PROMPT == "You are a smart, intelligent, self-learning and helpful Kubernetes assistant"

-----------------------------------------------------------------------------
(* JSON values and Python strings.  A value is a record of one shape:      *)
(* t is the type, s the text of a string (or the key of a member), xs the  *)
(* children.  json.dumps(v) is the string holding the serialisation of v:  *)
(* a value of type "json_text" with the single child v.                    *)

J(t, s, xs) == [t |-> t, s |-> s, xs |-> xs]
JNull == J("null", "", <<>>)
JStr(s) == J("string", s, <<>>)
JArr(xs) == J("array", "", xs)
JMember(k, v) == J("member", k, <<v>>)
JObj(members) == J("object", "", members)

IsStr(v) == v.t \in {"string", "json_text"}
IsDict(v) == v.t = "object"

dumps(v) == J("json_text", "", <<v>>)

\* json.loads: <<TRUE, value>> or <<FALSE, JNull>> on JSONDecodeError.
loads(text) ==
    IF text.t = "json_text" THEN <<TRUE, text.xs[1]>> ELSE <<FALSE, JNull>>

Keys(obj) == { obj.xs[k].s : k \in 1..Len(obj.xs) }
HasKey(obj, key) == IsDict(obj) /\ key \in Keys(obj)
Get(obj, key) ==
    IF HasKey(obj, key)
    THEN (CHOOSE m \in { obj.xs[k] : k \in 1..Len(obj.xs) } : m.s = key).xs[1]
    ELSE JNull

-----------------------------------------------------------------------------
(* The cluster API library as call_kubernetes_api uses it.                 *)

\* classes of kubernetes.client and the methods getattr finds on them
ApiClasses == {"CoreV1Api", "AppsV1Api"}
ApiMethods(api_class) ==
    IF api_class = "CoreV1Api" THEN {"list_node"}
    ELSE IF api_class = "AppsV1Api" THEN {"list_deployment_for_all_namespaces"}
    ELSE {}
\* keyword arguments the list methods accept besides _preload_content
AcceptedParams == {"limit", "label_selector"}

NodeList == JObj(<<JMember("items", JArr(<<JStr("n1"), JStr("n2")>>))>>)
StatusObject == JObj(<<JMember("kind", JStr("Status"))>>)
\* what the cluster does with one call: it raises, or returns a body
ClusterOutcomes ==
    { [raises |-> FALSE, data |-> NodeList],
      [raises |-> FALSE, data |-> StatusObject],
      [raises |-> TRUE, data |-> JNull] }
PlainOutcome == [raises |-> FALSE, data |-> NodeList]

\* jq.compile(jq_filter).input(value).all(): the list of outputs, or an error
jq_all(jq_filter, value) ==
    IF jq_filter = "."
    THEN [ok |-> TRUE, out |-> <<value>>, err |-> ""]
    ELSE IF jq_filter = ".items[]"
    THEN IF IsDict(value) /\ Get(value, "items").t = "array"
         THEN [ok |-> TRUE, out |-> Get(value, "items").xs, err |-> ""]
         ELSE [ok |-> FALSE, out |-> <<>>, err |-> "Cannot iterate over null"]
    ELSE [ok |-> FALSE, out |-> <<>>, err |-> "jq: error: syntax error in " \o jq_filter]

\* (mutant) the except branch swallows the error and returns an empty result
KubeErrorDropped(e) == JArr(<<>>)

\* the except branch of call_kubernetes_api
KubeError(e) == dumps(JObj(<<JMember("error", JStr(e))>>))

\* (mutant) the body is filtered as the text received, without json.loads
call_kubernetes_api_unparsed(api_class, method, params, jq_filter, env) ==
    IF api_class \notin ApiClasses
    THEN KubeError("module 'kubernetes.client' has no attribute '" \o api_class \o "'")
    ELSE IF method \notin ApiMethods(api_class)
    THEN KubeError("'" \o api_class \o "' object has no attribute '" \o method \o "'")
    ELSE IF ~IsDict(params)
    THEN KubeError("argument after ** must be a mapping")
    ELSE IF "_preload_content" \in Keys(params)
    THEN KubeError("got multiple values for keyword argument '_preload_content'")
    ELSE IF ~(Keys(params) \subseteq AcceptedParams)
    THEN KubeError("Got an unexpected keyword argument to method " \o method)
    ELSE IF env.raises
    THEN KubeError("(500) Reason: Internal Server Error")
    ELSE LET reduced == jq_all(jq_filter, dumps(env.data))
         IN  IF reduced.ok THEN JArr(reduced.out) ELSE KubeError(reduced.err)

\* main.py:26-46
call_kubernetes_api(api_class, method, params, jq_filter, env) ==
    IF api_class \notin ApiClasses
    THEN KubeError("module 'kubernetes.client' has no attribute '" \o api_class \o "'")
    ELSE IF method \notin ApiMethods(api_class)
    THEN KubeError("'" \o api_class \o "' object has no attribute '" \o method \o "'")
    ELSE IF ~IsDict(params)
    THEN KubeError("argument after ** must be a mapping")
    ELSE IF "_preload_content" \in Keys(params)
    THEN KubeError("got multiple values for keyword argument '_preload_content'")
    ELSE IF ~(Keys(params) \subseteq AcceptedParams)
    THEN KubeError("Got an unexpected keyword argument to method " \o method)
    ELSE IF env.raises
    THEN KubeError("(500) Reason: Internal Server Error")
    ELSE LET result == loads(dumps(env.data))[2]
             reduced == jq_all(jq_filter, result)
         IN  IF reduced.ok THEN JArr(reduced.out) ELSE KubeError(reduced.err)

\* a ToolResult that is the error descriptor of the except branch
IsErrorResult(kube_result) ==
    /\ kube_result.t = "json_text"
    /\ HasKey(kube_result.xs[1], "error")

-----------------------------------------------------------------------------
(* The oracle: what openai.beta.chat.completions.parse can return.         *)

Args(api_class, method, params, jq_filter) ==
    [api_class |-> api_class, method |-> method, params |-> params,
     jq_filter |-> jq_filter]

EmptyParams == JObj(<<>>)
LimitParams == JObj(<<JMember("limit", J("number", "1", <<>>))>>)
PlainArgs == Args("CoreV1Api", "list_node", EmptyParams, ".")

\* the arguments the oracle proposes: the plain call and single departures
ToolArguments ==
    { PlainArgs,
      Args("BadApi", "list_node", EmptyParams, "."),
      Args("CoreV1Api", "badOp", EmptyParams, "."),
      Args("CoreV1Api", "list_node", EmptyParams, "[.items["),
      Args("CoreV1Api", "list_node", EmptyParams, ".items[]"),
      Args("CoreV1Api", "list_node", dumps(EmptyParams), "."),
      Args("CoreV1Api", "list_node", LimitParams, "."),
      Args("CoreV1Api", "list_node", dumps(LimitParams), "."),
      Args("CoreV1Api", "list_node", JStr("{not json"), "."),
      Args("CoreV1Api", "list_node", dumps(JArr(<<>>)), "."),
      Args("CoreV1Api", "list_node", JObj(<<JMember("bogus", JStr("x"))>>), ".") }

\* a tool call as the oracle proposes it, before the arguments are parsed
RawToolCall(id, name, arguments) ==
    [id |-> id, name |-> name, arguments |-> arguments, parsed_arguments |-> <<>>]

PlainCall(id) == RawToolCall(id, "call_kubernetes_api", PlainArgs)

\* the name and arguments of the tool calls the oracle proposes
PlainKind == <<"call_kubernetes_api", PlainArgs>>
OtherKinds ==
    { <<"call_kubernetes_api", a>> : a \in ToolArguments \ {PlainArgs} }
    \cup { <<"other_function", PlainArgs>> }

\* (mutant) a string is accepted as it is, without the conversion
validate_without_conversion(value) == <<TRUE, value>>

\* (mutant) a string that is not JSON is replaced by the empty mapping
validate_lenient(value) ==
    IF IsStr(value)
    THEN IF loads(value)[1] THEN loads(value) ELSE <<TRUE, EmptyParams>>
    ELSE <<TRUE, value>>

\* CallKubernetesAPI.validate_and_convert_params: <<TRUE, params>>, or
\* <<FALSE, JNull>> when it raises ValueError
validate_and_convert_params(value) ==
    IF IsStr(value)
    THEN loads(value)
    ELSE <<TRUE, value>>

\* the parse of one tool call: parsed_arguments is <<CallKubernetesAPI>> for
\* the registered tool and <<>> (None) for any other function
ParseToolCall(tc) ==
    IF tc.name = "call_kubernetes_api"
    THEN [tc EXCEPT !.parsed_arguments =
            <<[tc.arguments EXCEPT
                 !.params = validate_and_convert_params(tc.arguments.params)[2]]>>]
    ELSE tc

ArgumentsValid(tc) ==
    tc.name = "call_kubernetes_api"
        => validate_and_convert_params(tc.arguments.params)[1]

\* the terminal decisions: OpenAIResponse.data
Decision(type, answer, list, message) ==
    [type |-> type, answer |-> answer, list |-> list, message |-> message]
FinalAnswer(answer) == Decision("FinalAnswer", answer, <<>>, "")
FetchLogs(list) == Decision("FetchLogs", "", list, "")
Error(message) == Decision("Error", "", <<>>, message)

ReadNamespacedPodLogParams(pod_name, namespace) ==
    [pod_name |-> pod_name, namespace |-> namespace, optional_params |-> JNull]

\* the log-fetch plan of n requests: pods p1 .. pn
LogPlan(n) ==
    [k \in 1..n |-> ReadNamespacedPodLogParams("p" \o ToString(k), "default")]

Decisions ==
    { FinalAnswer("2"), Error("Not able to process the query - no such pod") }
    \cup { FetchLogs(LogPlan(n)) : n \in 0..MaxLogs }

\* one reply of the oracle call
Reply(raises, finish_reason, parsed, calls) ==
    [raises |-> raises, finish_reason |-> finish_reason, parsed |-> parsed,
     tool_calls |-> calls]

\* ids of the tool calls of the turn of oracle call n
ToolCallId(n, k) == 100 * n + k

\* the oracle numbers its calls across the invocations of the handler, so that
\* no two turns carry the same ids: call n of invocation i
CallNumber(i, n) == (i - 1) * (max_attempts + 1) + n

\* the turns of len tool calls of which at most b are not the plain call
RECURSIVE TurnShapes(_, _)
TurnShapes(len, b) ==
    IF len = 0 THEN {<<>>}
    ELSE { Append(t, PlainKind) : t \in TurnShapes(len - 1, b) }
         \cup (IF b > 0
               THEN { Append(t[1], t[2]) : t \in TurnShapes(len - 1, b - 1) \X OtherKinds }
               ELSE {})

\* the tool-call turns of oracle call n with at most b departures: every call
\* after the first, and every call that is not the plain one, is a departure
ToolTurns(n, b) ==
    { [k \in 1..Len(t) |-> RawToolCall(ToolCallId(n, k), t[k][1], t[k][2])] :
        t \in UNION { TurnShapes(len, b - (len - 1)) : len \in 1..(b + 1) } }

OracleReplies(n, b) ==
    { Reply("", "stop", <<FinalAnswer("2")>>, <<>>) }
    \cup { Reply("", "tool_calls", <<>>, t) : t \in ToolTurns(n, b) }
    \cup (IF b > 0
          THEN { Reply("Connection error.", "", <<>>, <<>>),
                 Reply("", "stop", <<>>, <<>>),
                 Reply("", "function_call", <<>>, <<>>) }
               \cup { Reply("", "stop", <<d>>, <<>>) : d \in Decisions }
          ELSE {})

\* how many choices of the reply depart from the plain ones
Departures(reply) ==
    IF reply.finish_reason = "tool_calls"
    THEN (Len(reply.tool_calls) - 1)
         + Cardinality({ k \in 1..Len(reply.tool_calls) :
                           reply.tool_calls[k] # PlainCall(reply.tool_calls[k].id) })
    ELSE IF reply = Reply("", "stop", <<FinalAnswer("2")>>, <<>>) THEN 0
    ELSE 1

-----------------------------------------------------------------------------
(* The handler create_query.                                               *)

Msg(role, content, tool_call_id, calls) ==
    [role |-> role, content |-> content, tool_call_id |-> tool_call_id,
     tool_calls |-> calls]

\* the seed of the conversation
SeedMessages(q) ==
    << Msg("system", JStr(SYSTEM_PROMPT), 0, <<>>),
       Msg("user", JStr(q), 0, <<>>) >>

\* response.message of a tool-call turn
AssistantMessage(calls) == Msg("assistant", JNull, 0, calls)

\* (mutant) the tool-result message does not carry the id of its proposal
ToolMessageWithoutId(id, kube_result) == Msg("tool", dumps(kube_result), 0, <<>>)

\* the tool-result message of one tool call
ToolMessage(id, kube_result) == Msg("tool", dumps(kube_result), id, <<>>)

\* (mutant) the answer is wrapped instead of passed on as it is
QueryResponseLabelled(q, answer, via) ==
    [status |-> 200, query |-> q, answer |-> "Answer: " \o answer, via |-> via]

\* jsonify(QueryResponse(...).model_dump()); via names the return statement
QueryResponse(q, answer, via) ==
    [status |-> 200, query |-> q, answer |-> answer, via |-> via]

\* the response of the framework when the handler itself raises
InternalServerError ==
    [status |-> 500, query |-> "", answer |-> "", via |-> "unhandled"]

\* (mutant) the message reports the size of the range, not max_attempts
ExhaustedMessageOfRange ==
    "Query could not be resolved within " \o ToString(max_attempts + 1) \o " attempts."

\* main.py:361: the f-string over max_attempts
ExhaustedMessage ==
    "Query could not be resolved within " \o ToString(max_attempts) \o " attempts."

\* (mutant) the texts are concatenated without the separator
RECURSIVE JoinWithoutSeparator(_)
JoinWithoutSeparator(texts) ==
    IF texts = <<>> THEN "" ELSE texts[1] \o JoinWithoutSeparator(Tail(texts))

\* "\n".join(texts)
RECURSIVE Join(_)
Join(texts) ==
    IF texts = <<>> THEN ""
    ELSE IF Len(texts) = 1 THEN texts[1]
    ELSE texts[1] \o "\n" \o Join(Tail(texts))

\* the except branch of create_query: it reads `query`, which is unbound
\* when the request validation itself raised
ExceptResponse(q, e) ==
    IF q = <<>>
    THEN InternalServerError
    ELSE QueryResponse(q[1], "Error: " \o e, "except")

\* request.json of the incoming request
Bodies ==
    { JObj(<<JMember("query", JStr("how many nodes are there"))>>),
      JObj(<<JMember("query", JNull)>>),
      JObj(<<>>) }

\* QueryRequest.model_validate(request.json) succeeds
ValidBody(body) == HasKey(body, "query") /\ Get(body, "query").t = "string"

\* (mutant) the range is one iteration longer
AttemptRangeLonger == max_attempts + 2

\* main.py:282: range(max_attempts + 1)
AttemptRange == max_attempts + 1

Init ==
    /\ pc = "validate"
    /\ query = <<>>
    /\ messages = <<>>
    /\ attempt = 0
    /\ oracle_reply = <<>>
    /\ response = <<>>
    /\ tool_calls = <<>>
    /\ cluster_reply = <<>>
    /\ openai_response = <<>>
    /\ fetch_logs = <<>>
    /\ logs = <<>>
    /\ responses = <<>>
    /\ seen = <<>>
    /\ oracle_calls = 0
    /\ kube_calls = 0
    /\ log_calls = 0
    /\ varied = 0
    /\ parked = <<>>
    /\ self = 1

\* main.py:271-277: validate the request and seed the conversation
Validate ==
    /\ pc = "validate"
    /\ \E body \in Bodies :
         IF ValidBody(body)
         THEN /\ query' = <<Get(body, "query").s>>
              /\ messages' = SeedMessages(Get(body, "query").s)
              /\ pc' = "loop"
              /\ UNCHANGED responses
         ELSE /\ responses' = Append(responses, ExceptResponse(query, "validation error for QueryRequest"))
              /\ pc' = "done"
              /\ UNCHANGED <<query, messages>>
    /\ UNCHANGED <<attempt, oracle_reply, response, tool_calls, cluster_reply, openai_response,
                   fetch_logs, logs, seen, oracle_calls, kube_calls, log_calls, varied,
                   parked, self>>

\* (mutant) the response is produced and the handler goes on
FinishNoReturn(r) ==
    /\ responses' = Append(responses, r)
    /\ pc' = pc

\* a return statement of the handler: the response is produced and the run ends
Finish(r) ==
    /\ responses' = Append(responses, r)
    /\ pc' = "done"

\* the oracle call raises: the call itself, or the parse of the tool arguments
OracleCallRaises(reply) ==
    \/ reply.raises # ""
    \/ \E k \in 1..Len(reply.tool_calls) : ~ArgumentsValid(reply.tool_calls[k])

\* (mutant) an error result is not fed back to the conversation
AppendToolResultOnSuccess(msgs, id, kube_result) ==
    IF IsErrorResult(kube_result) THEN msgs ELSE Append(msgs, ToolMessage(id, kube_result))

\* (mutant) the oldest tool result is dropped to keep the conversation short
AppendToolResultTrimmed(msgs, id, kube_result) ==
    Append(IF Len(msgs) > 4 THEN SubSeq(msgs, 1, 3) \o SubSeq(msgs, 5, Len(msgs)) ELSE msgs,
           ToolMessage(id, kube_result))

\* main.py:345-351: the tool-result message is appended
AppendToolResult(msgs, id, kube_result) == Append(msgs, ToolMessage(id, kube_result))

\* main.py:324-326: join the fetched logs and answer
AnswerLogs(texts) == Finish(QueryResponse(query[1], Join(texts), "logs"))

\* main.py:283-358: one oracle call and the branch on its reply
Decide ==
    /\ pc = "loop"
    /\ attempt < AttemptRange
    /\ \E reply \in OracleReplies(CallNumber(self, oracle_calls + 1), MaxVaried - varied) :
         /\ varied' = varied + Departures(reply)
         /\ attempt' = attempt + 1
         /\ oracle_calls' = oracle_calls + 1
         /\ seen' = messages
         /\ oracle_reply' = <<reply>>
         /\ response' = IF OracleCallRaises(reply) THEN response ELSE <<reply>>
         /\ IF reply.raises # ""
            THEN \* the call itself raised
                 /\ Finish(ExceptResponse(query, reply.raises))
                 /\ UNCHANGED <<messages, tool_calls, openai_response, fetch_logs, logs>>
            ELSE IF OracleCallRaises(reply)
            THEN \* the parse of the tool arguments raised inside the call
                 /\ Finish(ExceptResponse(query, "validation error for CallKubernetesAPI"))
                 /\ UNCHANGED <<messages, tool_calls, openai_response, fetch_logs, logs>>
            ELSE IF reply.finish_reason = "stop"
            THEN IF reply.parsed = <<>>
                 THEN /\ Finish(ExceptResponse(query, "'NoneType' object has no attribute 'data'"))
                      /\ UNCHANGED <<messages, tool_calls, openai_response, fetch_logs, logs>>
                 ELSE /\ openai_response' = reply.parsed
                      /\ UNCHANGED <<messages, tool_calls>>
                      /\ IF reply.parsed[1].type = "FinalAnswer"
                         THEN /\ Finish(QueryResponse(query[1], reply.parsed[1].answer, "final_answer"))
                              /\ UNCHANGED <<fetch_logs, logs>>
                         ELSE IF reply.parsed[1].type = "FetchLogs"
                         THEN /\ fetch_logs' = reply.parsed[1].list
                              /\ logs' = <<>>
                              /\ IF reply.parsed[1].list = <<>>
                                 THEN AnswerLogs(<<>>)
                                 ELSE pc' = "logs" /\ UNCHANGED responses
                         ELSE /\ Finish(QueryResponse(query[1], reply.parsed[1].message, "error"))
                              /\ UNCHANGED <<fetch_logs, logs>>
            ELSE IF reply.finish_reason = "tool_calls"
            THEN /\ messages' = Append(messages,
                        AssistantMessage([k \in 1..Len(reply.tool_calls) |->
                                             ParseToolCall(reply.tool_calls[k])]))
                 /\ tool_calls' = [k \in 1..Len(reply.tool_calls) |->
                                     ParseToolCall(reply.tool_calls[k])]
                 /\ pc' = IF reply.tool_calls = <<>> THEN "loop" ELSE "tools"
                 /\ UNCHANGED <<openai_response, fetch_logs, logs, responses>>
            ELSE /\ Finish(ExceptResponse(query, "Unexpected finish_reason in GPT response."))
                 /\ UNCHANGED <<messages, tool_calls, openai_response, fetch_logs, logs>>
    /\ UNCHANGED <<query, cluster_reply, kube_calls, log_calls, parked, self>>

\* the call gets as far as the cluster (main.py:33)
ReachesCluster(args) ==
    /\ args.api_class \in ApiClasses
    /\ args.method \in ApiMethods(args.api_class)
    /\ IsDict(args.params)
    /\ Keys(args.params) \subseteq AcceptedParams

\* main.py:339-355: one tool call of the turn
ExecTool ==
    /\ pc = "tools"
    /\ tool_calls # <<>>
    /\ LET tc == Head(tool_calls)
       IN  IF tc.parsed_arguments # <<>>
           THEN \E env \in ClusterOutcomes :
                  LET args == tc.parsed_arguments[1]
                      cost == IF env = PlainOutcome THEN 0 ELSE 1
                      kube_result == call_kubernetes_api(args.api_class, args.method,
                                                         args.params, args.jq_filter, env)
                  IN  /\ ReachesCluster(args) \/ env = PlainOutcome
                      /\ varied + cost <= MaxVaried
                      /\ varied' = varied + cost
                      /\ kube_calls' = kube_calls + 1
                      /\ cluster_reply' = <<env>>
                      /\ messages' = AppendToolResult(messages, tc.id, kube_result)
                      /\ tool_calls' = Tail(tool_calls)
                      /\ pc' = IF Tail(tool_calls) = <<>> THEN "loop" ELSE "tools"
                      /\ UNCHANGED responses
           ELSE /\ Finish(ExceptResponse(query, "Unexpected function call in GPT response"))
                /\ UNCHANGED <<messages, tool_calls, cluster_reply, kube_calls, varied>>
    /\ UNCHANGED <<query, attempt, oracle_reply, response, openai_response, fetch_logs,
                   logs, seen, oracle_calls, log_calls, parked, self>>

\* the text read_namespaced_pod_log returns for a pod
LogText(log) == "log of " \o log.pod_name

\* main.py:314-326: one log request of the plan
FetchLog ==
    /\ pc = "logs"
    /\ fetch_logs # <<>>
    /\ log_calls' = log_calls + 1
    /\ \E raises \in BOOLEAN :
         IF raises
         THEN /\ Finish(ExceptResponse(query, "(404) Reason: Not Found"))
              /\ UNCHANGED <<fetch_logs, logs>>
         ELSE /\ logs' = Append(logs, LogText(Head(fetch_logs)))
              /\ fetch_logs' = Tail(fetch_logs)
              /\ IF Tail(fetch_logs) = <<>>
                 THEN AnswerLogs(Append(logs, LogText(Head(fetch_logs))))
                 ELSE UNCHANGED <<pc, responses>>
    /\ UNCHANGED <<query, messages, attempt, oracle_reply, response, tool_calls,
                   cluster_reply, openai_response, seen, oracle_calls, kube_calls, varied,
                   parked, self>>

\* main.py:360-364: the loop ran out
Exhausted ==
    /\ pc = "loop"
    /\ attempt >= AttemptRange
    /\ Finish(QueryResponse(query[1], ExhaustedMessage, "exhausted"))
    /\ UNCHANGED <<query, messages, attempt, oracle_reply, response, tool_calls,
                   cluster_reply, openai_response, fetch_logs, logs, seen, oracle_calls,
                   kube_calls, log_calls, varied, parked, self>>

Next == Validate \/ Decide \/ ExecTool \/ FetchLog \/ Exhausted

Spec == Init /\ [][Next]_vars

\* the handler runs synchronously, and every external call returns
FairSpec == Spec /\ WF_vars(Next)

\* A cluster call that never returns.  The calls are made without a timeout
\* (main.py:33, main.py:316-320), so the handler stays in the call: no step
\* leaves the blocked position.

\* main.py:33: the cluster call of call_kubernetes_api does not return
ClusterCallHangs ==
    /\ pc = "tools"
    /\ tool_calls # <<>>
    /\ Head(tool_calls).parsed_arguments # <<>>
    /\ ReachesCluster(Head(tool_calls).parsed_arguments[1])
    /\ pc' = "blocked"
    /\ kube_calls' = kube_calls + 1
    /\ UNCHANGED <<query, messages, attempt, oracle_reply, response, tool_calls,
                   cluster_reply, openai_response, fetch_logs, logs, responses, seen,
                   oracle_calls, log_calls, varied, parked, self>>

\* main.py:316: read_namespaced_pod_log does not return
LogFetchHangs ==
    /\ pc = "logs"
    /\ fetch_logs # <<>>
    /\ pc' = "blocked"
    /\ log_calls' = log_calls + 1
    /\ UNCHANGED <<query, messages, attempt, oracle_reply, response, tool_calls,
                   cluster_reply, openai_response, fetch_logs, logs, responses, seen,
                   oracle_calls, kube_calls, varied, parked, self>>

HangNext == Next \/ ClusterCallHangs \/ LogFetchHangs

\* the handler when cluster calls may fail to return
HangSpec == Init /\ [][HangNext]_vars

\* Two invocations of create_query.  The server runs each request in a thread
\* of its own; everything create_query assigns is a local of the invocation
\* (main.py:271-364), so a thread switch exchanges the locals.

\* the questions of the two invocations
Questions == <<"how many nodes are there", "which pods are pending">>

\* the locals of the running invocation
Locals ==
    [pc |-> pc, query |-> query, messages |-> messages, attempt |-> attempt,
     oracle_reply |-> oracle_reply, response |-> response, tool_calls |-> tool_calls,
     cluster_reply |-> cluster_reply, openai_response |-> openai_response,
     fetch_logs |-> fetch_logs, logs |-> logs, responses |-> responses, seen |-> seen,
     oracle_calls |-> oracle_calls, kube_calls |-> kube_calls, log_calls |-> log_calls]

\* the locals of an invocation that validated question q and seeded its
\* conversation (main.py:271-277)
StartLocals(q) ==
    [pc |-> "loop", query |-> <<q>>, messages |-> SeedMessages(q), attempt |-> 0,
     oracle_reply |-> <<>>, response |-> <<>>, tool_calls |-> <<>>,
     cluster_reply |-> <<>>, openai_response |-> <<>>,
     fetch_logs |-> <<>>, logs |-> <<>>, responses |-> <<>>, seen |-> <<>>,
     oracle_calls |-> 0, kube_calls |-> 0, log_calls |-> 0]

\* (mutant) the conversation is one list of the module, shared by the invocations
ModuleMessages(own, current) == current

\* main.py:274: `messages` is a local: the resumed invocation finds its own list
LocalMessages(own, current) == own

\* the scheduler suspends the running invocation between two of its cycles and
\* resumes the other one, unless that one has returned
Switch ==
    /\ parked # <<>>
    /\ pc \in {"loop", "done"}
    /\ parked[1].pc # "done"
    /\ self' = 3 - self
    /\ parked' = <<Locals>>
    /\ pc' = parked[1].pc
    /\ query' = parked[1].query
    /\ messages' = LocalMessages(parked[1].messages, messages)
    /\ attempt' = parked[1].attempt
    /\ oracle_reply' = parked[1].oracle_reply
    /\ response' = parked[1].response
    /\ tool_calls' = parked[1].tool_calls
    /\ cluster_reply' = parked[1].cluster_reply
    /\ openai_response' = parked[1].openai_response
    /\ fetch_logs' = parked[1].fetch_logs
    /\ logs' = parked[1].logs
    /\ responses' = parked[1].responses
    /\ seen' = parked[1].seen
    /\ oracle_calls' = parked[1].oracle_calls
    /\ kube_calls' = parked[1].kube_calls
    /\ log_calls' = parked[1].log_calls
    /\ UNCHANGED varied

\* both invocations have validated their requests; the first one is running
ConcurrentInit ==
    /\ pc = "loop"
    /\ query = <<Questions[1]>>
    /\ messages = SeedMessages(Questions[1])
    /\ attempt = 0
    /\ oracle_reply = <<>>
    /\ response = <<>>
    /\ tool_calls = <<>>
    /\ cluster_reply = <<>>
    /\ openai_response = <<>>
    /\ fetch_logs = <<>>
    /\ logs = <<>>
    /\ responses = <<>>
    /\ seen = <<>>
    /\ oracle_calls = 0
    /\ kube_calls = 0
    /\ log_calls = 0
    /\ parked = <<StartLocals(Questions[2])>>
    /\ self = 1
    /\ varied = 0

ConcurrentNext == Decide \/ ExecTool \/ FetchLog \/ Exhausted \/ Switch

ConcurrentSpec == ConcurrentInit /\ [][ConcurrentNext]_vars

TypeOK ==
    /\ pc \in {"validate", "loop", "tools", "logs", "done", "blocked"}
    /\ attempt \in 0..(max_attempts + 2)
    /\ Len(responses) <= 1
    /\ varied \in 0..MaxVaried

-----------------------------------------------------------------------------
(* Vocabulary of the properties.                                           *)

Done == pc = "done"

\* the positions of the conversation that hold a message of the role
Positions(role) == { k \in 1..Len(messages) : messages[k].role = role }

\* a well-formed tool-invocation turn: every call is a parsed CallKubernetesAPI
WellFormedTurn(calls) ==
    /\ calls # <<>>
    /\ \A k \in 1..Len(calls) : calls[k].parsed_arguments # <<>>

\* every oracle call so far returned a well-formed tool-invocation turn
OnlyInvocations ==
    /\ oracle_calls > 0
    /\ Cardinality(Positions("assistant")) = oracle_calls
    /\ \A k \in Positions("assistant") : WellFormedTurn(messages[k].tool_calls)

\* the latest reply is neither a well-formed tool turn nor a terminal decision
MalformedReply ==
    /\ response # <<>>
    /\ \/ response[1].finish_reason \notin {"stop", "tool_calls"}
       \/ response[1].finish_reason = "stop" /\ response[1].parsed = <<>>
       \/ /\ response[1].finish_reason = "tool_calls"
          /\ \E k \in 1..Len(response[1].tool_calls) :
                response[1].tool_calls[k].name # "call_kubernetes_api"

\* the invocation fails: unknown class or method, arguments the method
\* rejects, the cluster call raising, or a filter that cannot be applied
InvocationFails(args, env) ==
    \/ args.api_class \notin ApiClasses
    \/ args.method \notin ApiMethods(args.api_class)
    \/ ~IsDict(args.params)
    \/ ~(Keys(args.params) \subseteq AcceptedParams)
    \/ env.raises
    \/ args.jq_filter \notin {".", ".items[]"}
    \/ args.jq_filter = ".items[]" /\ ~HasKey(env.data, "items")

\* the latest oracle call itself raised: the oracle could not be reached
OracleUnreachable == oracle_reply # <<>> /\ oracle_reply[1].raises # ""

\* the tool calls proposed in the conversation
Proposals ==
    UNION { { messages[j].tool_calls[m] : m \in 1..Len(messages[j].tool_calls) } :
              j \in Positions("assistant") }

\* the conversation ends with the result of a call with the identity filter
\* that the cluster answered
IdentityCallReturned ==
    /\ messages # <<>>
    /\ messages[Len(messages)].role = "tool"
    /\ cluster_reply # <<>>
    /\ ~cluster_reply[1].raises
    /\ \E tc \in Proposals :
          /\ tc.id = messages[Len(messages)].tool_call_id
          /\ tc.parsed_arguments # <<>>
          /\ tc.parsed_arguments[1].jq_filter = "."
          /\ ReachesCluster(tc.parsed_arguments[1])

\* the first n texts, a single newline between consecutive ones
RECURSIVE NewlineSeparated(_, _)
NewlineSeparated(texts, n) ==
    IF n = 0 THEN ""
    ELSE IF n = 1 THEN texts[1]
    ELSE NewlineSeparated(texts, n - 1) \o "\n" \o texts[n]

\* s is a prefix of t
IsPrefix(s, t) == Len(s) <= Len(t) /\ SubSeq(t, 1, Len(s)) = s

\* the latest oracle reply proposes a call whose params is a string that is
\* not JSON
InvalidParamsProposed ==
    /\ oracle_reply # <<>>
    /\ \E k \in 1..Len(oracle_reply[1].tool_calls) :
          /\ oracle_reply[1].tool_calls[k].name = "call_kubernetes_api"
          /\ oracle_reply[1].tool_calls[k].arguments.params.t = "string"

\* the ids the oracle gives to the tool calls of invocation i
IdsOf(i) ==
    { ToolCallId(CallNumber(i, n), k) : n \in 1..(max_attempts + 1), k \in 1..(MaxVaried + 1) }

\* the locals of invocation i, running or parked
LocalsOf(i) == IF self = i THEN Locals ELSE parked[1]

\* the conversation of invocation i holds its own seed, and proposals and tool
\* results of its own oracle calls only
OwnConversation(i) ==
    LET conv == LocalsOf(i).messages
    IN  /\ SubSeq(conv, 1, 2) = SeedMessages(Questions[i])
        /\ \A k \in 3..Len(conv) :
              \/ /\ conv[k].role = "assistant"
                 /\ \A m \in 1..Len(conv[k].tool_calls) : conv[k].tool_calls[m].id \in IdsOf(i)
              \/ /\ conv[k].role = "tool"
                 /\ conv[k].tool_call_id \in IdsOf(i)

\* a step that executes one call_kubernetes_api
KubeCallStep == kube_calls' = kube_calls + 1

-----------------------------------------------------------------------------
(* C1: in every run the number of oracle calls issued never exceeds        *)
(* max_attempts + 1, that is 11.                                           *)
C1_OracleCallsBounded == oracle_calls <= max_attempts + 1

C1_Witness == Done /\ oracle_calls = max_attempts + 1

(* C2: with max = 10 an 11th oracle call never happens in any run.  The    *)
(* loop ranges over max_attempts + 1 iterations, so the 11th call is made. *)
C2_NoEleventhCall == oracle_calls <= max_attempts

(* C3: when every oracle reply is a well-formed tool invocation the run    *)
(* ends, and it ends with an ordinary response whose answer is the fixed   *)
(* message holding "could not be resolved within 10 attempts".             *)
C3_ExhaustedAnswer ==
    /\ [](Done /\ OnlyInvocations =>
            /\ Len(responses) = 1
            /\ responses[1].status = 200
            /\ responses[1].via = "exhausted"
            /\ responses[1].query = query[1]
            /\ responses[1].answer
                 = "Query " \o "could not be resolved within 10 attempts" \o ".")
    /\ (OnlyInvocations ~> Done)

C3_Witness == Done /\ OnlyInvocations /\ responses[1].via = "exhausted"

(* C4: once the loop has started, the run eventually terminates with       *)
(* exactly one response (final answer, logs, oracle error, exhausted or    *)
(* hard failure), provided every external call returns.                    *)
C4_Terminates ==
    /\ (pc = "loop") ~>
         (/\ Done
          /\ Len(responses) = 1
          /\ responses[1].via \in {"final_answer", "logs", "error", "exhausted", "except"})
    /\ [](Len(responses) <= 1)
    /\ [](Len(responses) = 1 => Done)

C4_Witness == Done /\ oracle_calls > 0 /\ Len(responses) = 1

(* C5: a terminal decision ends the run in the cycle it arrives in: no     *)
(* oracle call and no call_kubernetes_api follows it, a FinalAnswer is     *)
(* answered with exactly its text and an Error with exactly its message,   *)
(* and one invoke turn followed by a FinalAnswer ends after 2 cycles.      *)
C5_TerminalEndsRun ==
    /\ [][openai_response # <<>> =>
            /\ oracle_calls' = oracle_calls
            /\ kube_calls' = kube_calls
            /\ messages' = messages]_vars
    /\ [](openai_response # <<>> =>
            /\ openai_response[1].type = "FinalAnswer" =>
                 /\ Done
                 /\ Len(responses) = 1
                 /\ responses[1].status = 200
                 /\ responses[1].via = "final_answer"
                 /\ responses[1].answer = openai_response[1].answer
            /\ openai_response[1].type = "Error" =>
                 /\ Done
                 /\ Len(responses) = 1
                 /\ responses[1].status = 200
                 /\ responses[1].via = "error"
                 /\ responses[1].answer = openai_response[1].message
            /\ openai_response[1].type = "FetchLogs" => pc \in {"logs", "done"}
            /\ attempt = Cardinality(Positions("assistant")) + 1)

C5_Witness ==
    /\ Done
    /\ openai_response = <<FinalAnswer("2")>>
    /\ Cardinality(Positions("assistant")) = 1
    /\ kube_calls = 1
    /\ oracle_calls = 2
    /\ responses[1].answer = "2"

(* C6: a log-fetch plan of N requests is answered with N segments in       *)
(* request order even when fetching one of them raises: every request is   *)
(* fetched and the answer is the logs answer.  The code has no handler     *)
(* around the fetch, so the first failure ends the run with "Error: ...".  *)
C6_AllSegmentsReturned ==
    (Done /\ openai_response # <<>> /\ openai_response[1].type = "FetchLogs") =>
        /\ responses[1].via = "logs"
        /\ log_calls = Len(openai_response[1].list)

(* C7: a failure inside one tool invocation becomes an error result that   *)
(* is appended as the tool-result message of that invocation; the step     *)
(* produces no response and leaves the attempt counter alone, and every    *)
(* cycle counts as one attempt.                                            *)
C7_FailureBecomesToolResult ==
    /\ [][(KubeCallStep /\ InvocationFails(Head(tool_calls).parsed_arguments[1],
                                           cluster_reply'[1])) =>
            /\ Len(messages') = Len(messages) + 1
            /\ messages'[Len(messages')].role = "tool"
            /\ messages'[Len(messages')].tool_call_id = Head(tool_calls).id
            /\ messages'[Len(messages')].content.t = "json_text"
            /\ IsErrorResult(messages'[Len(messages')].content.xs[1])
            /\ pc' \in {"tools", "loop"}
            /\ responses' = responses
            /\ attempt' = attempt]_vars
    /\ [](attempt = oracle_calls)

C7_Witness ==
    /\ pc = "loop"
    /\ attempt = 1
    /\ kube_calls = 1
    /\ messages[Len(messages)].role = "tool"
    /\ IsErrorResult(messages[Len(messages)].content.xs[1])
    /\ response[1].tool_calls[1].arguments.method = "badOp"

(* C8: a malformed oracle reply costs one attempt and is not fatal: while  *)
(* budget remains the loop asks the oracle again.  The code raises         *)
(* ValueError (or AttributeError), which ends the run with "Error: ...".   *)
C8_MalformedReplyNotFatal ==
    (MalformedReply /\ attempt < max_attempts) => ~Done

(* C9: every cycle that does not end the run lengthens the conversation:   *)
(* by the proposal message and one tool-result message per invocation.     *)
C9_CycleLengthensConversation ==
    (pc = "loop" /\ oracle_calls > 0) =>
        /\ Len(messages) > Len(seen)
        /\ Len(messages) = Len(seen) + 1 + Len(response[1].tool_calls)
        /\ messages[Len(seen) + 1] = AssistantMessage(
              [k \in 1..Len(response[1].tool_calls) |->
                   ParseToolCall(response[1].tool_calls[k])])
        /\ \A k \in (Len(seen) + 2)..Len(messages) : messages[k].role = "tool"

C9_Witness ==
    /\ pc = "loop"
    /\ oracle_calls = 2
    /\ Len(response[1].tool_calls) = 2
    /\ Len(messages) = Len(seen) + 3

(* C10: every tool result appended to the conversation is passed to a      *)
(* later oracle call, the results of the last cycle of the budget          *)
(* included.  The results of the 11th cycle are appended and the loop      *)
(* ends without another oracle call.                                       *)
C10_ResultsSeenByOracle ==
    Done => \A k \in Positions("tool") : k <= Len(seen)

(* C11: a hard failure (the oracle call itself raising) reaches the caller  *)
(* as an error response that differs in kind from a response carrying a    *)
(* terminal decision.  The except branch answers with the same             *)
(* QueryResponse shape and status as an ordinary answer.                   *)
C11_HardFailureDistinctInKind ==
    (Done /\ Len(responses) = 1 /\ OracleUnreachable) =>
        /\ responses[1].via = "except"
        /\ responses[1].status # 200

(* C12: a tool call whose params is a JSON string encoding a mapping m is  *)
(* dispatched with the same class, method, keyword arguments and filter,   *)
(* and gives the same tool result, as the call with params = m.            *)
C12_StringParamsTransparent ==
    [][(/\ KubeCallStep
        /\ Head(tool_calls).arguments.params.t = "json_text"
        /\ IsDict(Head(tool_calls).arguments.params.xs[1])) =>
          LET a == Head(tool_calls).arguments
              m == a.params.xs[1]
          IN  /\ Head(tool_calls).parsed_arguments
                   = <<Args(a.api_class, a.method, m, a.jq_filter)>>
              /\ messages' = Append(messages,
                    Msg("tool",
                        dumps(call_kubernetes_api(a.api_class, a.method, m,
                                                  a.jq_filter, cluster_reply'[1])),
                        Head(tool_calls).id, <<>>))]_vars

C12_Witness ==
    /\ pc = "loop"
    /\ kube_calls = 1
    /\ response[1].tool_calls[1].arguments.params = dumps(LimitParams)
    /\ messages[Len(messages)].role = "tool"
    /\ messages[Len(messages)].content = dumps(JArr(<<NodeList>>))

(* C13 (as claimed): with the identity filter "." call_kubernetes_api       *)
(* returns the value v of the cluster call unchanged.  The code returns    *)
(* jq's .all(), the list of the outputs of the filter.                     *)
C13_IdentityReturnsValue ==
    IdentityCallReturned =>
        messages[Len(messages)].content = dumps(cluster_reply[1].data)

(* C13 (amended): with the identity filter "." call_kubernetes_api returns  *)
(* the one-element list [v], v being the value of the cluster call,        *)
(* unchanged.                                                              *)
C13_IdentityReturnsSingleton ==
    IdentityCallReturned =>
        messages[Len(messages)].content = dumps(JArr(<<cluster_reply[1].data>>))

C13_Witness ==
    /\ IdentityCallReturned
    /\ cluster_reply[1].data = StatusObject
    /\ messages[Len(messages)].content = dumps(JArr(<<StatusObject>>))

(* C14: when all N log requests of a plan succeed, the log-fetch operation *)
(* is called once per request, in request order, and the answer is the N   *)
(* fetched texts in that order with one newline between consecutive texts. *)
C14_LogsJoinedInOrder ==
    (/\ Done
     /\ openai_response # <<>>
     /\ openai_response[1].type = "FetchLogs"
     /\ Len(logs) = Len(openai_response[1].list)) =>
        LET list == openai_response[1].list
        IN  /\ log_calls = Len(list)
            /\ \A k \in 1..Len(list) : logs[k] = "log of " \o list[k].pod_name
            /\ Len(responses) = 1
            /\ responses[1].status = 200
            /\ responses[1].via = "logs"
            /\ responses[1].answer = NewlineSeparated(logs, Len(list))

C14_Witness ==
    /\ Done
    /\ openai_response = <<FetchLogs(LogPlan(2))>>
    /\ log_calls = 2
    /\ responses[1].answer = "log of p1\nlog of p2"

(* C15: every oracle call and every cluster call is subject to a timeout,  *)
(* so a run blocked in an external call that does not return by itself     *)
(* still goes on to a response: some step is enabled there.  The code      *)
(* passes no timeout to any of the calls.                                  *)
C15_StuckCallTimesOut == (pc = "blocked") => ENABLED HangNext

(* C16: two invocations that handle distinct questions share no            *)
(* conversation and no budget.  A step of the running invocation is a step *)
(* of the handler alone and leaves the locals of the other one as they     *)
(* are; an invocation that is resumed finds the conversation, the attempt  *)
(* count and the responses it was suspended with; and the conversation of  *)
(* each invocation holds its own seed messages followed by proposals and   *)
(* tool results that carry the ids of its own oracle calls only.           *)
C16_InstancesIsolated ==
    [][/\ (self' = self) => (Next /\ parked' = parked)
       /\ (self' # self) => (Locals' = parked[1] /\ parked' = <<Locals>>)
       /\ \A i \in {1, 2} : OwnConversation(i)']_vars

C16_Witness ==
    /\ self = 1
    /\ pc = "done"
    /\ oracle_calls = 3
    /\ responses[1].via = "final_answer"
    /\ parked # <<>>
    /\ parked[1].pc = "loop"
    /\ parked[1].oracle_calls = 2
    /\ Len(parked[1].messages) = 6
    /\ Len(messages) = 6
    /\ messages[3].tool_calls[1].id = ToolCallId(1, 1)
    /\ parked[1].messages[3].tool_calls[1].id = ToolCallId(max_attempts + 2, 1)

(* C17: the number in the exhaustion message is the number of attempts     *)
(* made, that is the number of oracle calls of the run.  The message       *)
(* reports max_attempts (10) after max_attempts + 1 (11) oracle calls.     *)
C17_MessageReportsAttemptsMade ==
    (Done /\ Len(responses) = 1 /\ responses[1].via = "exhausted") =>
        responses[1].answer
          = "Query could not be resolved within " \o ToString(oracle_calls) \o " attempts."

(* C18: at every oracle call the conversation holds, right after each      *)
(* proposal message, one tool-result message per proposed call, in         *)
(* proposal order and carrying the id of its proposal; every tool-result   *)
(* message answers a proposal of a preceding assistant message and every   *)
(* proposal has exactly one tool-result message.                           *)
C18_ResultsCorrelated ==
    (pc = "loop") =>
        /\ \A j \in Positions("assistant") :
             \A m \in 1..Len(messages[j].tool_calls) :
                /\ j + m <= Len(messages)
                /\ messages[j + m].role = "tool"
                /\ messages[j + m].tool_call_id = messages[j].tool_calls[m].id
                /\ Cardinality({ k \in Positions("tool") :
                       messages[k].tool_call_id = messages[j].tool_calls[m].id }) = 1
        /\ \A k \in Positions("tool") :
             \E j \in Positions("assistant") :
                /\ j < k
                /\ \E m \in 1..Len(messages[j].tool_calls) :
                      messages[j].tool_calls[m].id = messages[k].tool_call_id

C18_Witness ==
    /\ pc = "loop"
    /\ oracle_calls = 2
    /\ Len(messages[Len(seen) + 1].tool_calls) = 2
    /\ messages[Len(seen) + 3].tool_call_id = messages[Len(seen) + 1].tool_calls[2].id

(* C19: the conversation starts as [system instruction, user question] and *)
(* is only ever appended to, so the conversation passed to an oracle call  *)
(* extends the one passed to the previous oracle call.                     *)
C19_AppendOnly ==
    [][/\ (pc = "validate" /\ pc' = "loop") =>
            messages' = << [role |-> "system", content |-> JStr(SYSTEM_PROMPT),
                            tool_call_id |-> 0, tool_calls |-> <<>>],
                           [role |-> "user", content |-> JStr(query'[1]),
                            tool_call_id |-> 0, tool_calls |-> <<>>] >>
       /\ (pc # "validate") => IsPrefix(messages, messages')
       /\ IsPrefix(seen, seen')
       /\ (oracle_calls' # oracle_calls) => seen' = messages]_vars

C19_Witness ==
    /\ oracle_calls = 3
    /\ pc = "tools"
    /\ Len(seen) = 6
    /\ Len(messages) = 7
    /\ IsPrefix(seen, messages)

(* C20: a tool call whose params is a string that is not JSON is never     *)
(* dispatched to the cluster API, and the run ends with a response of the  *)
(* handler.                                                                *)
C20_InvalidParamsNotDispatched ==
    InvalidParamsProposed =>
        /\ Done
        /\ Len(responses) = 1
        /\ responses[1].status = 200
        /\ responses[1].query = query[1]
        /\ kube_calls = Cardinality(Positions("tool"))
        /\ \A k \in Positions("tool") :
             \A m \in 1..Len(oracle_reply[1].tool_calls) :
                messages[k].tool_call_id # oracle_reply[1].tool_calls[m].id

C20_Witness ==
    /\ InvalidParamsProposed
    /\ Done
    /\ oracle_calls = 2
    /\ kube_calls = 1
    /\ responses[1].via = "except"

(* C21: for every request, also one whose body fails the validation, the  *)
(* handler ends with one response of the shape {query, answer}: the error  *)
(* path completes.  The except branch reads `query`, which is unbound when *)
(* the validation raised, so the handler itself raises and the framework   *)
(* answers 500.                                                            *)
C21_ErrorPathCompletes ==
    Done =>
        /\ Len(responses) = 1
        /\ responses[1].status = 200
        /\ responses[1].via # "unhandled"
        /\ responses[1].answer # ""

====
